---- MODULE Spec2Model ----
(***************************************************************************)
(* A model of issueplanner's planner document (IssuePlannerDoc): the task  *)
(* tree, the find-or-create walk get_task_path and its two callers, the    *)
(* id allocation of create_task, set_task_constraint and                   *)
(* reset_project_start; of the paginated issue generator of                *)
(* BitbucketClient; and of the functions of utils that order issues and    *)
(* estimate their work.                                                    *)
(*                                                                         *)
(* A Python string is a sequence of one-character strings, so that         *)
(* split, join, the XPath template and string comparison are computed and  *)
(* not assumed.  A task element is a record of its attributes, the handle  *)
(* of its parent and its <constraint> children; the document's task        *)
(* elements are the sequence doc, in the order they were appended.  A node *)
(* handle is an index of doc; 0 is the <tasks> element.                    *)
(***************************************************************************)
EXTENDS Integers, Sequences, FiniteSets, TLC

VARIABLES doc, pending, projectStart, loaded, last, allocated, retired,
          bb, gen, calc

vars == <<doc, pending, projectStart, loaded, last, allocated, retired,
          bb, gen, calc>>

(***************************************************************************)
(* Bounds of the model.                                                    *)
(***************************************************************************)
\* the most create_task calls of one behaviour
MaxAlloc == 2
\* the most task elements returned by create_task and not yet appended
MaxPending == 2

(***************************************************************************)
(* Strings.                                                                *)
(***************************************************************************)
\* Python's None, where a milestone label may stand: no string has a
\* character of four letters, so it differs from every label.
None == <<"None">>

IndexOf(s, c) ==
    IF \E i \in 1..Len(s) : s[i] = c
    THEN CHOOSE i \in 1..Len(s) : s[i] = c /\ \A j \in 1..(i - 1) : s[j] # c
    ELSE 0

\* s.split(c)
RECURSIVE SplitOn(_, _)
SplitOn(s, c) ==
    LET i == IndexOf(s, c) IN
    IF i = 0 THEN <<s>>
    ELSE <<SubSeq(s, 1, i - 1)>> \o SplitOn(SubSeq(s, i + 1, Len(s)), c)

\* c.join(parts)
RECURSIVE Join(_, _)
Join(parts, c) ==
    IF parts = <<>> THEN <<>>
    ELSE IF Len(parts) = 1 THEN parts[1]
    ELSE parts[1] \o <<c>> \o Join(Tail(parts), c)

StripBlanks(s) == SelectSeq(s, LAMBDA ch : ch # " ")

DigitVal(ch) ==
    CASE ch = "0" -> 0 [] ch = "1" -> 1 [] ch = "2" -> 2 [] ch = "3" -> 3
      [] ch = "4" -> 4 [] ch = "5" -> 5 [] ch = "6" -> 6 [] ch = "7" -> 7
      [] ch = "8" -> 8 [] ch = "9" -> 9

DigitChar(n) ==
    CASE n = 0 -> "0" [] n = 1 -> "1" [] n = 2 -> "2" [] n = 3 -> "3"
      [] n = 4 -> "4" [] n = 5 -> "5" [] n = 6 -> "6" [] n = 7 -> "7"
      [] n = 8 -> "8" [] n = 9 -> "9"

\* int(s) for a string of decimal digits
RECURSIVE StrToInt(_)
StrToInt(s) ==
    IF Len(s) = 1 THEN DigitVal(s[1])
    ELSE 10 * StrToInt(SubSeq(s, 1, Len(s) - 1)) + DigitVal(s[Len(s)])

\* str(n) for n >= 0
RECURSIVE IntToStr(_)
IntToStr(n) ==
    IF n < 10 THEN <<DigitChar(n)>>
    ELSE Append(IntToStr(n \div 10), DigitChar(n % 10))

(***************************************************************************)
(* utils.milestone_path_names                                              *)
(***************************************************************************)
milestone_path_names(milestone) ==
    LET ms_elements == SplitOn(milestone, ".") IN
    [i \in 1..(Len(ms_elements) - 1) |-> Join(SubSeq(ms_elements, 1, i + 1), ".")]

(***************************************************************************)
(* The query parent_te.xpath("task[@name='{name}']").  The name is pasted  *)
(* between two apostrophes, so an apostrophe of the name ends the XPath    *)
(* string literal.  The pieces of the name between its apostrophes are, in *)
(* turn, a literal, the text between two literals, a literal, ...          *)
(*   no apostrophe:   task[@name='N']          the children named N        *)
(*   two, around and: task[@name='A' and 'B']  the children named A if B   *)
(*                    is not empty (the boolean of a string), none if it is*)
(*   otherwise:       the expression does not parse (an unfinished literal,*)
(*                    or a literal followed by text that is no operator):  *)
(*                    lxml raises XPathEvalError.                          *)
(* Other operators between two literals (or, =, |, ...) are XPath too; no  *)
(* name the model draws has them.                                          *)
(***************************************************************************)
XPathWellFormed(name) ==
    LET segs == SplitOn(name, "'") IN
    \/ Len(segs) = 1
    \/ Len(segs) = 3 /\ StripBlanks(segs[2]) = <<"a", "n", "d">>

XPathPredicate(name, attr) ==
    LET segs == SplitOn(name, "'") IN
    IF Len(segs) = 1 THEN attr = name
    ELSE attr = segs[1] /\ segs[3] # <<>>

\* the handles of the task children of parent_te, in document order
TaskChildren(d, parent_te) ==
    SelectSeq([i \in 1..Len(d) |-> i], LAMBDA i : d[i].parent = parent_te)

XPathSelect(d, parent_te, name) ==
    SelectSeq(TaskChildren(d, parent_te),
              LAMBDA i : XPathPredicate(name, d[i].name))

(***************************************************************************)
(* IssuePlannerDoc.create_task                                             *)
(***************************************************************************)
MaxOf(S) == CHOOSE x \in S : \A y \in S : y <= x

\* _get_next_task_id: max() over the task elements of the document; the
\* elements create_task returned and nobody appended are not in it.
\* On a document with no task max() raises ValueError (HasTasks is false).
HasTasks(d) == d # <<>>

\* a variant that counts the tasks instead of taking the largest id
NextTaskId_Counting(d) == Len(d) + 1

NextTaskId(d) == MaxOf({StrToInt(d[i].id) : i \in 1..Len(d)}) + 1

\* the attributes create_task gives a task unless attrs names them
DefaultAttrs(name, id) ==
    [k \in {"id", "name", "note", "work", "start", "end", "work-start",
            "percent-complete", "priority", "type", "scheduling"} |->
        CASE k = "id" -> id
          [] k = "name" -> name
          [] k = "start" -> <<>>
          [] k = "work" -> "28800"
          [] k = "percent-complete" -> "0"
          [] k = "priority" -> "0"
          [] k = "type" -> "normal"
          [] k = "scheduling" -> "fixed-work"
          [] OTHER -> ""]

NoAttrs == [k \in {} |-> <<>>]

\* a variant in which the defaults win over attrs
create_task_DefaultsWin(d, name, attrs) ==
    LET defaults == DefaultAttrs(name, IntToStr(NextTaskId(d))) IN
    [k \in DOMAIN defaults \cup DOMAIN attrs |->
        IF k \in DOMAIN defaults THEN defaults[k] ELSE attrs[k]]

\* _attrs.update(attrs): every key of attrs wins over the default.  The
\* element is not attached: it has no parent until the caller appends it.
create_task(d, name, attrs) ==
    LET defaults == DefaultAttrs(name, IntToStr(NextTaskId(d))) IN
    [k \in DOMAIN defaults \cup DOMAIN attrs |->
        IF k \in DOMAIN attrs THEN attrs[k] ELSE defaults[k]]

\* parent_te.append(child_te): the element with its attributes, under
\* parent_te, with the <constraint> children it has (none when new)
Attached(te, parent_te, constraints) ==
    [k \in DOMAIN te \cup {"parent", "constraints"} |->
        CASE k = "parent" -> parent_te
          [] k = "constraints" -> constraints
          [] OTHER -> te[k]]

AppendChild(d, parent_te, te) == Append(d, Attached(te, parent_te, <<>>))

(***************************************************************************)
(* IssuePlannerDoc.get_task_path.  The result: the document after the      *)
(* call, the node returned (0 when the call raised), the exception, the    *)
(* ids create_task allocated, in order, and whether a step found two or    *)
(* more children of the name.                                              *)
(***************************************************************************)
Raised(d, err, created, dup) ==
    [doc |-> d, node |-> 0, err |-> err, created |-> created, dup |-> dup]

\* raise Exception("Found multiple tasks named {fqrn}".format(fqrn)):
\* fqrn is no name of get_task_path's scope, so evaluating the argument
\* raises NameError before any message is built.
DuplicateError == "NameError"

\* a variant that looks up the name after a created one under the same
\* parent, and not under the created task
RECURSIVE WalkPath_NoDescend(_, _, _, _)
WalkPath_NoDescend(d, parent_te, names, created) ==
    IF names = <<>>
    THEN [doc |-> d, node |-> parent_te, err |-> "none", created |-> created,
          dup |-> FALSE]
    ELSE LET name == Head(names) IN
         IF ~XPathWellFormed(name)
         THEN Raised(d, "XPathEvalError", created, FALSE)
         ELSE LET elms == XPathSelect(d, parent_te, name) IN
              IF Len(elms) >= 2 THEN Raised(d, DuplicateError, created, TRUE)
              ELSE IF Len(elms) = 0
              THEN IF ~HasTasks(d)
                   THEN Raised(d, "ValueError", created, FALSE)
                   ELSE LET child_te == create_task(d, name, NoAttrs) IN
                        WalkPath_NoDescend(AppendChild(d, parent_te, child_te),
                                           parent_te, Tail(names),
                                           Append(created,
                                                  StrToInt(child_te.id)))
              ELSE WalkPath_NoDescend(d, elms[1], Tail(names), created)

RECURSIVE WalkPath(_, _, _, _)
WalkPath(d, parent_te, names, created) ==
    IF names = <<>>
    THEN [doc |-> d, node |-> parent_te, err |-> "none", created |-> created,
          dup |-> FALSE]
    ELSE LET name == Head(names) IN
         IF ~XPathWellFormed(name)
         THEN Raised(d, "XPathEvalError", created, FALSE)
         ELSE LET elms == XPathSelect(d, parent_te, name) IN
              IF Len(elms) >= 2 THEN Raised(d, DuplicateError, created, TRUE)
              ELSE IF Len(elms) = 0
              THEN IF ~HasTasks(d)
                   THEN Raised(d, "ValueError", created, FALSE)
                   ELSE LET child_te == create_task(d, name, NoAttrs) IN
                        WalkPath(AppendChild(d, parent_te, child_te),
                                 Len(d) + 1, Tail(names),
                                 Append(created, StrToInt(child_te.id)))
              ELSE WalkPath(d, elms[1], Tail(names), created)

\* with no name the loop does not run and "return child_te" reads a local
\* that was never bound
get_task_path(d, parent_te, names) ==
    IF names = <<>> THEN Raised(d, "UnboundLocalError", <<>>, FALSE)
    ELSE WalkPath(d, parent_te, names, <<>>)

\* "{tracker[owner]}/{tracker[slug]}".format(tracker=tracker)
Fqrn(tracker) == tracker.owner \o <<"/">> \o tracker.slug

Unplanned == <<"U", "n", "p", "l", "a", "n", "n", "e", "d">>

MilestoneNames(milestone) ==
    IF milestone = None THEN <<Unplanned>>
    ELSE IF IndexOf(milestone, ".") # 0 THEN milestone_path_names(milestone)
    ELSE <<milestone>>

get_project_task(d, tracker) == get_task_path(d, 0, <<Fqrn(tracker)>>)

get_milestone_task(d, prj_te, milestone) ==
    get_task_path(d, prj_te, MilestoneNames(milestone))

(***************************************************************************)
(* The inputs.                                                             *)
(***************************************************************************)
\* a task element of a loaded document
T(name, id, parent, start) ==
    Attached([DefaultAttrs(name, id) EXCEPT !["start"] = start], parent, <<>>)

\* two trackers of the same slug under two owners (each part is \w+)
Trackers ==
    { [owner |-> <<"a">>, slug |-> <<"r">>],
      [owner |-> <<"b">>, slug |-> <<"r">>] }

M12 == <<"1", ".", "2">>
M123 == <<"1", ".", "2", ".", "3">>
M2 == <<"2">>
\* a label with apostrophes: 2' and '2
MQuoted == <<"2", "'", " ", "a", "n", "d", " ", "'", "2">>

Milestones == {None, M12, M123, M2, MQuoted}

\* the name lists of get_task_path called on its own: none, two names to
\* create one under the other, a label with apostrophes, and a project's
\* name with a milestone's
NameLists ==
    { <<>>, <<M12, M123>>, <<MQuoted>>, << <<"a", "/", "r">>, M2 >> }

\* an issue's task name and the attrs its caller passes to create_task
LeafNames == { <<"i">> }

LeafAttrs == { [start |-> <<"1", "0">>] }

\* the attrs of a create_task call on its own: none, a start, and two of
\* the attributes that have a default other than the empty string
TaskAttrs ==
    { NoAttrs,
      [start |-> <<"1", "0">>],
      [k \in {"work", "percent-complete"} |->
          IF k = "work" THEN "3600" ELSE "100"] }

\* the project-start attribute of the document as loaded
LoadedProjectStart == <<"3">>

\* the documents a run may load
InitDocs ==
    { <<>>,
      << T(<<"a", "/", "r">>, <<"1">>, 0, <<>>) >>,
      << T(<<"a", "/", "r">>, <<"5">>, 0, <<>>),
         [T(M2, <<"0", "3">>, 1, <<"2", "0">>) EXCEPT !.constraints =
             << [type |-> "must-start-on", time |-> <<"2", "0">>] >>] >>,
      << T(<<"a", "/", "r">>, <<"1">>, 0, <<>>),
         T(M2, <<"2">>, 1, <<>>),
         T(M2, <<"3">>, 1, <<"2">>) >> }

(***************************************************************************)
(* The state machine.                                                      *)
(***************************************************************************)
Call(op, parent, arg, r) ==
    [op |-> op, parent |-> parent, arg |-> arg, node |-> r.node,
     err |-> r.err, dup |-> r.dup, ret |-> <<>>]

\* a document is loaded
InitDoc ==
    /\ doc \in InitDocs
    /\ loaded = doc
    /\ pending = <<>>
    /\ projectStart = LoadedProjectStart
    /\ last = [op |-> "load", parent |-> 0, arg |-> <<>>, node |-> 0,
               err |-> "none", dup |-> FALSE, ret |-> <<>>]
    /\ allocated = <<>>
    /\ retired = {}

\* no get_all_issues generator is open
NoIssues ==
    /\ bb = [count |-> 0]
    /\ gen = [pc |-> "closed"]

\* no function of utils has been called
NoCalc == calc = [op |-> "none", called |-> FALSE]

Init == InitDoc /\ NoIssues /\ NoCalc

\* a resolve call: the walk's effect on the document and the ids it took
Resolve(op, parent, arg, r) ==
    /\ Len(allocated) + Len(r.created) <= MaxAlloc
    /\ doc' = r.doc
    /\ allocated' = allocated \o r.created
    /\ last' = Call(op, parent, arg, r)
    /\ UNCHANGED <<pending, projectStart, loaded, retired,
                   bb, gen, calc>>

GetTaskPath ==
    \E parent_te \in 0..Len(doc), names \in NameLists :
        Resolve("get_task_path", parent_te, names,
                get_task_path(doc, parent_te, names))

GetProjectTask ==
    \E tracker \in Trackers :
        Resolve("get_project_task", 0, tracker, get_project_task(doc, tracker))

GetMilestoneTask ==
    \E prj_te \in 1..Len(doc), milestone \in Milestones :
        /\ doc[prj_te].parent = 0
        /\ Resolve("get_milestone_task", prj_te, milestone,
                   get_milestone_task(doc, prj_te, milestone))

\* create_task called on its own: the element is returned unattached
CreateTask ==
    \E name \in LeafNames, attrs \in TaskAttrs :
        /\ Len(pending) < MaxPending
        /\ Len(allocated) < MaxAlloc
        /\ IF HasTasks(doc)
           THEN LET te == create_task(doc, name, attrs) IN
                /\ pending' = Append(pending, te)
                /\ allocated' = Append(allocated, StrToInt(te.id))
                /\ last' = [op |-> "create_task", parent |-> 0,
                            arg |-> [name |-> name, attrs |-> attrs],
                            node |-> 0, err |-> "none", dup |-> FALSE,
                            ret |-> te.id]
           ELSE /\ last' = [op |-> "create_task", parent |-> 0,
                            arg |-> [name |-> name, attrs |-> attrs],
                            node |-> 0, err |-> "ValueError", dup |-> FALSE,
                            ret |-> <<>>]
                /\ UNCHANGED <<pending, allocated>>
        /\ UNCHANGED <<doc, projectStart, loaded, retired,
                       bb, gen, calc>>

\* the caller's parent_te.append(te) of an element create_task returned
AppendTask ==
    \E k \in 1..Len(pending), parent_te \in 0..Len(doc) :
        /\ doc' = AppendChild(doc, parent_te, pending[k])
        /\ pending' = [j \in 1..(Len(pending) - 1) |->
                          IF j < k THEN pending[j] ELSE pending[j + 1]]
        /\ last' = [op |-> "append", parent |-> parent_te,
                    arg |-> pending[k].name, node |-> Len(doc) + 1,
                    err |-> "none", dup |-> FALSE, ret |-> <<>>]
        /\ UNCHANGED <<projectStart, loaded, allocated, retired,
                       bb, gen, calc>>

\* an issue's leaf: create_task and the append of what it returned, as
\* get_task_path does them, with nothing in between
AttachLeaf ==
    \E parent_te \in 1..Len(doc), name \in LeafNames, attrs \in LeafAttrs :
        /\ Len(allocated) < MaxAlloc
        /\ LET te == create_task(doc, name, attrs) IN
           /\ doc' = AppendChild(doc, parent_te, te)
           /\ allocated' = Append(allocated, StrToInt(te.id))
           /\ last' = [op |-> "attach_leaf", parent |-> parent_te,
                       arg |-> name, node |-> Len(doc) + 1, err |-> "none",
                       dup |-> FALSE, ret |-> te.id]
        /\ UNCHANGED <<pending, projectStart, loaded, retired,
                       bb, gen, calc>>

\* An edit from outside (the planner application) removes a task element
\* and the elements under it.
RECURSIVE InSubtree(_, _, _)
InSubtree(d, i, k) ==
    \/ i = k
    \/ d[i].parent # 0 /\ InSubtree(d, d[i].parent, k)

RemoveSubtree(d, k) ==
    LET kept == SelectSeq([i \in 1..Len(d) |-> i],
                          LAMBDA i : ~InSubtree(d, i, k))
        handle(i) == CHOOSE j \in 1..Len(kept) : kept[j] = i
    IN [j \in 1..Len(kept) |->
          [d[kept[j]] EXCEPT !.parent = IF @ = 0 THEN 0 ELSE handle(@)]]

RemoveTask ==
    \E k \in 1..Len(doc) :
        /\ doc' = RemoveSubtree(doc, k)
        /\ retired' = retired \cup
              {StrToInt(doc[i].id) : i \in {j \in 1..Len(doc) : InSubtree(doc, j, k)}}
        /\ last' = [op |-> "remove", parent |-> 0, arg |-> <<>>, node |-> 0,
                    err |-> "none", dup |-> FALSE, ret |-> <<>>]
        /\ UNCHANGED <<pending, projectStart, loaded, allocated,
                       bb, gen, calc>>

(***************************************************************************)
(* IssuePlannerDoc.reset_project_start                                     *)
(***************************************************************************)
\* the code point of a character of a timestamp
Ord(ch) ==
    CASE ch = "T" -> 84 [] ch = "Z" -> 90 [] OTHER -> 48 + DigitVal(ch)

\* a < b for Python strings: the first differing character decides, and a
\* proper prefix is smaller
RECURSIVE StrLess(_, _)
StrLess(a, b) ==
    IF b = <<>> THEN FALSE
    ELSE IF a = <<>> THEN TRUE
    ELSE IF Head(a) # Head(b) THEN Ord(Head(a)) < Ord(Head(b))
    ELSE StrLess(Tail(a), Tail(b))

\* ts for ts in xpath("///task/@start") if ts != ""
NonEmptyStarts(d) ==
    SelectSeq([i \in 1..Len(d) |-> d[i].start], LAMBDA ts : ts # <<>>)

\* a variant that takes the first start of the document, unsorted
EarliestStart_Unsorted(d) == NonEmptyStarts(d)[1]

\* sorted(...)[0]
EarliestStart(d) == SortSeq(NonEmptyStarts(d), StrLess)[1]

ResetProjectStart ==
    /\ IF NonEmptyStarts(doc) = <<>>
       THEN /\ last' = [op |-> "reset_project_start", parent |-> 0,
                        arg |-> <<>>, node |-> 0, err |-> "IndexError",
                        dup |-> FALSE, ret |-> <<>>]
            /\ UNCHANGED projectStart
       ELSE /\ projectStart' = EarliestStart(doc)
            /\ last' = [op |-> "reset_project_start", parent |-> 0,
                        arg |-> <<>>, node |-> 0, err |-> "none",
                        dup |-> FALSE, ret |-> EarliestStart(doc)]
    /\ UNCHANGED <<doc, pending, loaded, allocated, retired,
                   bb, gen, calc>>

(***************************************************************************)
(* IssuePlannerDoc.set_task_constraint                                     *)
(***************************************************************************)
\* the constraint types of a Planner document and the timestamps passed
ConstraintTypes ==
    {"must-start-on", "start-no-earlier-than", "finish-no-later-than"}

Timestamps == { <<"1", "0">>, <<"2", "0">> }

\* a variant that appends a new <constraint> on every call
set_task_constraint_Appending(d, te, ctype, ts) ==
    [d EXCEPT ![te].constraints =
        Append(@, [type |-> "start-no-earlier-than", time |-> ts])]

\* ce is te.find("constraint"), the first <constraint> child, or a new one
\* appended to te; its type is set to the literal "start-no-earlier-than"
\* (ctype is not read) and its time to ts
set_task_constraint(d, te, ctype, ts) ==
    LET ce == [type |-> "start-no-earlier-than", time |-> ts] IN
    [d EXCEPT ![te].constraints =
        IF @ = <<>> THEN <<ce>> ELSE [@ EXCEPT ![1] = ce]]

SetTaskConstraint ==
    \E te \in 1..Len(doc), ctype \in ConstraintTypes, ts \in Timestamps :
        /\ doc' = set_task_constraint(doc, te, ctype, ts)
        /\ last' = [op |-> "set_task_constraint", parent |-> 0,
                    arg |-> [ctype |-> ctype, ts |-> ts], node |-> te,
                    err |-> "none", dup |-> FALSE, ret |-> <<>>]
        /\ UNCHANGED <<pending, projectStart, loaded, allocated, retired,
                       bb, gen, calc>>

(***************************************************************************)
(* BitbucketClient.get_all_issues: a generator.  gen is its frame (pc,     *)
(* start, count, the issues of the response not yet yielded) and what its  *)
(* consumer has seen of it: the issues yielded and, for each request, its  *)
(* parameters and how many issues had been yielded when it was made.  bb   *)
(* is the tracker at Bitbucket: its issues are numbered 1..bb.count.       *)
(***************************************************************************)
\* the most issues of a tracker
MaxIssues == 51

batch == 25

\* the response of issue.all to start and limit: the issues after the
\* first start of them, limit at most, and the count of all
IssuePage(n, start, limit) ==
    [issues |-> [i \in 1..(IF start + limit <= n THEN limit
                           ELSE IF start <= n THEN n - start
                           ELSE 0) |-> start + i],
     count |-> n]

\* an idle tracker of n issues and a generator new from get_all_issues
InitIssues ==
    /\ bb \in [count : 0..MaxIssues]
    /\ gen = [pc |-> "while", start |-> 0, count |-> batch, page |-> <<>>,
              resp_count |-> 0, yielded |-> <<>>, requests |-> <<>>,
              err |-> "none"]

\* a variant of the loop condition that is off by one
MorePages_Inclusive(start, count) == start <= count

\* while start < count
MorePages(start, count) == start < count

\* s, resp = self._bb.issue.all(...); if not s: raise ...: the raise
\* evaluates the name account, which nothing defines
RequestPage ==
    /\ gen.pc = "while"
    /\ MorePages(gen.start, gen.count)
    /\ \E s \in BOOLEAN :
          LET resp == IssuePage(bb.count, gen.start, batch)
              request == [start |-> gen.start, limit |-> batch,
                          yielded |-> Len(gen.yielded)]
          IN gen' = IF s
                    THEN [gen EXCEPT !.pc = "for",
                                     !.page = resp.issues,
                                     !.resp_count = resp.count,
                                     !.requests = Append(@, request)]
                    ELSE [gen EXCEPT !.pc = "raised",
                                     !.err = "NameError",
                                     !.requests = Append(@, request)]
    /\ UNCHANGED <<doc, pending, projectStart, loaded, last, allocated,
                   retired, bb, calc>>

\* for r in resp["issues"]: yield r
YieldIssue ==
    /\ gen.pc = "for"
    /\ gen.page # <<>>
    /\ gen' = [gen EXCEPT !.yielded = Append(@, Head(gen.page)),
                          !.page = Tail(@)]
    /\ UNCHANGED <<doc, pending, projectStart, loaded, last, allocated,
                   retired, bb, calc>>

\* count = resp["count"]; start += batch
EndOfPage ==
    /\ gen.pc = "for"
    /\ gen.page = <<>>
    /\ gen' = [gen EXCEPT !.pc = "while",
                          !.count = gen.resp_count,
                          !.start = @ + batch]
    /\ UNCHANGED <<doc, pending, projectStart, loaded, last, allocated,
                   retired, bb, calc>>

\* the loop ends and the generator with it
StopIteration ==
    /\ gen.pc = "while"
    /\ ~MorePages(gen.start, gen.count)
    /\ gen' = [gen EXCEPT !.pc = "done"]
    /\ UNCHANGED <<doc, pending, projectStart, loaded, last, allocated,
                   retired, bb, calc>>

(***************************************************************************)
(* utils.issue_sort_key and utils.issue_elapsed_work_seconds.  calc holds  *)
(* a call: its arguments and, once it is made, what it returned.           *)
(***************************************************************************)
\* status_map[status]["level"]
status_level(status) ==
    CASE status = "new" -> 1
      [] status = "open" -> 2
      [] status = "on hold" -> 3
      [] status = "resolved" -> 5
      [] status = "closed" -> 6
      [] status = "invalid" -> 9
      [] status = "wontfix" -> 9
      [] status = "duplicate" -> 9

\* priority_map[priority]["level"]
priority_level(priority) ==
    CASE priority = "trivial" -> 5
      [] priority = "minor" -> 4
      [] priority = "major" -> 3
      [] priority = "critical" -> 2
      [] priority = "blocker" -> 1

Statuses ==
    {"new", "open", "on hold", "resolved", "closed", "invalid", "wontfix",
     "duplicate"}

Priorities == {"trivial", "minor", "major", "critical", "blocker"}

\* local ids as Bitbucket's JSON may carry them: the order of the numbers
\* is not the order of the strings
LocalIds == { <<"9">>, <<"1", "0">> }

Issues == [status : Statuses, priority : Priorities, local_id : LocalIds]

\* a variant that puts the priority before the status
issue_sort_key_PriorityFirst(i) ==
    <<priority_level(i.priority), status_level(i.status),
      StrToInt(i.local_id)>>

issue_sort_key(i) ==
    <<status_level(i.status), priority_level(i.priority),
      StrToInt(i.local_id)>>

\* a < b for Python tuples of integers: the first differing item decides,
\* and a proper prefix is smaller
RECURSIVE TupleLess(_, _)
TupleLess(a, b) ==
    IF b = <<>> THEN FALSE
    ELSE IF a = <<>> THEN TRUE
    ELSE IF Head(a) # Head(b) THEN Head(a) < Head(b)
    ELSE TupleLess(Tail(a), Tail(b))

\* two issues are ordered by their keys, as sorted(key=issue_sort_key) does
CompareIssues ==
    /\ calc.op = "issue_sort_key"
    /\ ~calc.called
    /\ calc' = [op |-> "issue_sort_key", called |-> TRUE,
                a |-> calc.a, b |-> calc.b,
                before |-> TupleLess(issue_sort_key(calc.a),
                                     issue_sort_key(calc.b))]
    /\ UNCHANGED <<doc, pending, projectStart, loaded, last, allocated,
                       retired, bb, gen>>

\* the most half hours between an issue's creation and its last update
MaxHalfHours == 145

\* the spans in seconds: the half hours, and some seconds off them
Spans == {k * 1800 : k \in 0..MaxHalfHours} \cup {1, 3601, 28801, 86399}

hour_s == 3600

seconds_per_workday == 8 * hour_s

\* timedelta.seconds of a span: a timedelta is held as days and the
\* seconds within the day, and .seconds is the latter alone
timedelta_seconds(span) == span % (24 * hour_s)

\* ceil(x / y) for integers x >= 0 and y > 0
CeilDiv(x, y) == (x + y - 1) \div y

\* elapsed_to_work_factor is (8 * 5) / (24 * 7); ceil(s * 40/168 / hour_s)
\* is computed here on the integers
issue_elapsed_work_seconds(span) ==
    LET elapsed_s == timedelta_seconds(span) IN
    IF elapsed_s <= seconds_per_workday
    THEN CeilDiv(elapsed_s, hour_s) * hour_s
    ELSE CeilDiv(elapsed_s * (8 * 5), (24 * 7) * hour_s) * hour_s

ElapsedWork ==
    /\ calc.op = "issue_elapsed_work_seconds"
    /\ ~calc.called
    /\ calc' = [op |-> "issue_elapsed_work_seconds", called |-> TRUE,
                span |-> calc.span,
                ret |-> issue_elapsed_work_seconds(calc.span)]
    /\ UNCHANGED <<doc, pending, projectStart, loaded, last, allocated,
                   retired, bb, gen>>

\* the arguments of a call that is about to be made
InitUtils ==
    calc \in [op : {"issue_sort_key"}, called : {FALSE},
              a : Issues, b : Issues]
             \cup [op : {"issue_elapsed_work_seconds"}, called : {FALSE},
                   span : Spans]

(***************************************************************************)
(* The specifications.                                                     *)
(***************************************************************************)
\* the three resolve calls alone
NextResolve == GetTaskPath \/ GetProjectTask \/ GetMilestoneTask

SpecResolve == Init /\ [][NextResolve]_vars

\* a synchronisation pass: resolve calls and issue leaves
NextSync ==
    \/ GetTaskPath
    \/ GetProjectTask
    \/ GetMilestoneTask
    \/ AttachLeaf

SpecSync == Init /\ [][NextSync]_vars

\* scheduled leaves come and go, and the project start is recomputed
NextStart == AttachLeaf \/ RemoveTask \/ ResetProjectStart

SpecStart == Init /\ [][NextStart]_vars

\* create_task on its own, the caller's append, and the outside edit
NextAlloc == CreateTask \/ AppendTask \/ RemoveTask

SpecAlloc == Init /\ [][NextAlloc]_vars

\* any sequence of set_task_constraint calls on the tasks of the document
NextConstraint == SetTaskConstraint

SpecConstraint == Init /\ [][NextConstraint]_vars

\* no document is loaded
NoDoc ==
    /\ doc = <<>>
    /\ loaded = <<>>
    /\ pending = <<>>
    /\ projectStart = LoadedProjectStart
    /\ last = [op |-> "none", parent |-> 0, arg |-> <<>>, node |-> 0,
               err |-> "none", dup |-> FALSE, ret |-> <<>>]
    /\ allocated = <<>>
    /\ retired = {}

\* a consumer that takes every issue of get_all_issues
NextIssues == RequestPage \/ YieldIssue \/ EndOfPage \/ StopIteration

InitClient == NoDoc /\ InitIssues /\ NoCalc

SpecIssues == InitClient /\ [][NextIssues]_vars /\ WF_vars(NextIssues)

\* a call of a function of utils on its arguments
NextUtils == CompareIssues \/ ElapsedWork

InitCalls == NoDoc /\ NoIssues /\ InitUtils

SpecUtils == InitCalls /\ [][NextUtils]_vars

\* every operation on the document, create_task and the caller's append
\* apart, and the outside edit
Next ==
    \/ GetTaskPath
    \/ GetProjectTask
    \/ GetMilestoneTask
    \/ CreateTask
    \/ AppendTask
    \/ RemoveTask
    \/ ResetProjectStart
    \/ SetTaskConstraint

Spec == Init /\ [][Next]_vars

(***************************************************************************)
(* The vocabulary of the properties.                                       *)
(***************************************************************************)
ResolveOps == {"get_task_path", "get_project_task", "get_milestone_task"}

SiblingNamesUnique(d) ==
    \A i, j \in 1..Len(d) :
        (i # j /\ d[i].parent = d[j].parent) => d[i].name # d[j].name

IdsUnique(d) ==
    \A i, j \in 1..Len(d) : i # j => StrToInt(d[i].id) # StrToInt(d[j].id)

\* the names on the way down from node top (not included) to node n
\* (included); <<>> when n is top, and a path through <tasks> when n is
\* not under top
RECURSIVE PathBelow(_, _, _)
PathBelow(d, top, n) ==
    IF n = top \/ n = 0 THEN <<>>
    ELSE Append(PathBelow(d, top, d[n].parent), d[n].name)

RECURSIVE IsUnder(_, _, _)
IsUnder(d, top, n) ==
    IF n = top THEN TRUE
    ELSE IF n = 0 THEN FALSE
    ELSE IsUnder(d, top, d[n].parent)

\* the last resolve call, made once more on the document as it is now
Again ==
    CASE last.op = "get_task_path" -> get_task_path(doc, last.parent, last.arg)
      [] last.op = "get_project_task" -> get_project_task(doc, last.arg)
      [] last.op = "get_milestone_task" ->
              get_milestone_task(doc, last.parent, last.arg)

(***************************************************************************)
(* C1: a resolve call (get_task_path, get_project_task or                  *)
(* get_milestone_task) that succeeded, made again with the same arguments  *)
(* on the document it left, returns the same node, creates no task,        *)
(* allocates no id and leaves the document as it is.                       *)
(* Refuted by a name with apostrophes: task[@name='2' and '2'] selects the *)
(* children named 2, never the task the call names 2' and '2, so each call *)
(* creates one more.                                                       *)
(***************************************************************************)
C1_ResolveIdempotent ==
    (last.op \in ResolveOps /\ last.err = "none") =>
        /\ Again.err = "none"
        /\ Again.node = last.node
        /\ Again.created = <<>>
        /\ Again.doc = doc

(***************************************************************************)
(* C2: from a document whose sibling tasks have distinct names, after any  *)
(* resolve calls, no two tasks of one parent have the same name.           *)
(* Refuted by the same name with apostrophes, resolved twice.              *)
(***************************************************************************)
C2_SiblingNamesStayUnique ==
    SiblingNamesUnique(loaded) => SiblingNamesUnique(doc)

(***************************************************************************)
(* C3: from a document whose tasks have distinct integer ids, after any    *)
(* resolve calls and issue leaves attached by create_task and the append   *)
(* of its result, no two tasks of the document have the same id.           *)
(***************************************************************************)
C3_IdsStayUnique ==
    IdsUnique(loaded) => IdsUnique(doc)

\* a resolve call created a task and then a leaf was attached
C3_Witness ==
    /\ IdsUnique(loaded)
    /\ last.op = "attach_leaf"
    /\ Len(allocated) = 2
    /\ \E i \in (Len(loaded) + 1)..Len(doc) : doc[i].name \notin LeafNames

(***************************************************************************)
(* C4: every create_task call returns an id greater than the id of every   *)
(* earlier create_task call, whether the earlier elements were appended    *)
(* or not.                                                                 *)
(* Refuted by two calls with no append between them: both take 1 + the     *)
(* maximum of the same document.                                           *)
(***************************************************************************)
C4_IdsStrictlyIncrease ==
    \A i, j \in 1..Len(allocated) : i < j => allocated[i] < allocated[j]

(***************************************************************************)
(* C5: create_task never returns the id of a task that was removed from    *)
(* the document.                                                           *)
(* Refuted by removing the task of the largest id: the next id is again    *)
(* 1 + the maximum of what is left.                                        *)
(***************************************************************************)
C5_IdsNeverReused ==
    (last.op = "create_task" /\ last.err = "none") =>
        StrToInt(last.ret) \notin retired

(***************************************************************************)
(* C6: a get_task_path call that finds two or more children of the name it *)
(* looks for fails with a duplicate-sibling-name error (which names the    *)
(* parent and the child name) and returns no node.                         *)
(* Refuted: the raise statement itself fails with NameError.               *)
(***************************************************************************)
C6_DuplicateIsReported ==
    last.dup => (last.err = "DuplicateSiblingName" /\ last.node = 0)

(***************************************************************************)
(* C7: the node get_milestone_task returns is, below the project task,     *)
(* at the path Unplanned for no milestone, at the label itself for a label *)
(* without a dot, and for a dotted label at the chain of its prefixes that *)
(* end before a dot or at the end and hold at least one dot.               *)
(* Refuted by a label with apostrophes: 2' and '2 returns the child named  *)
(* 2.                                                                      *)
(***************************************************************************)
Dotted(m) == \E k \in 1..Len(m) : m[k] = "."

\* the lengths of the prefixes of label m that name a bucket
BucketCuts(m) ==
    {n \in 0..Len(m) :
        /\ n = Len(m) \/ m[n + 1] = "."
        /\ Dotted(m) => Dotted(SubSeq(m, 1, n))}

RECURSIVE PrefixChain(_, _, _)
PrefixChain(m, cuts, from) ==
    IF \A n \in cuts : n < from THEN <<>>
    ELSE LET n == CHOOSE x \in cuts : x >= from /\ \A y \in cuts : y >= from => x <= y
         IN <<SubSeq(m, 1, n)>> \o PrefixChain(m, cuts, n + 1)

DocumentedPath(m) ==
    IF m = None THEN <<Unplanned>> ELSE PrefixChain(m, BucketCuts(m), 0)

C7_MilestoneOnDocumentedPath ==
    (last.op = "get_milestone_task" /\ last.err = "none") =>
        /\ IsUnder(doc, last.parent, last.node)
        /\ PathBelow(doc, last.parent, last.node) = DocumentedPath(last.arg)

(***************************************************************************)
(* C8: after get_project_task(tracker), <tasks> has exactly one child      *)
(* named owner/slug, the call returned it, and the trackers of one slug    *)
(* under two owners have two project tasks.                                *)
(* Refuted on a document with no task (C9): the call raises ValueError and *)
(* there is no project task.                                               *)
(***************************************************************************)
ProjectTasks(tracker) ==
    {i \in 1..Len(doc) : doc[i].parent = 0 /\ doc[i].name = Fqrn(tracker)}

C8_OneProjectTaskPerTracker ==
    (SiblingNamesUnique(loaded) /\ last.op = "get_project_task") =>
        /\ ProjectTasks(last.arg) = {last.node}
        /\ last.node # 0
        /\ \A t \in Trackers :
              t # last.arg => ProjectTasks(t) \cap ProjectTasks(last.arg) = {}

(***************************************************************************)
(* C9: on a document with no task, get_task_path(<tasks>, [1.2, 1.2.3])    *)
(* succeeds and creates exactly the task 1.2 under <tasks> and the task    *)
(* 1.2.3 under it.                                                         *)
(* Refuted: create_task takes max() of no id and raises ValueError.        *)
(***************************************************************************)
C9_PathFromEmptyRoot ==
    (/\ loaded = <<>>
     /\ last.op = "get_task_path"
     /\ last.parent = 0
     /\ last.arg = <<M12, M123>>) =>
        /\ last.err = "none"
        /\ Len(doc) = 2
        /\ doc[1].name = M12 /\ doc[1].parent = 0
        /\ doc[2].name = M123 /\ doc[2].parent = 1
        /\ last.node = 2

(***************************************************************************)
(* C10: when some task has a start that is not empty, reset_project_start  *)
(* sets project-start to a start of the document that no other start that  *)
(* is not empty is smaller than (as strings), returns it, and leaves the   *)
(* tasks as they are.                                                      *)
(***************************************************************************)
C10_ResetSetsEarliestStart ==
    [][(/\ last'.op = "reset_project_start"
        /\ \E i \in 1..Len(doc) : doc[i].start # <<>>) =>
           /\ last'.err = "none"
           /\ \E i \in 1..Len(doc) : doc[i].start = projectStart'
           /\ projectStart' # <<>>
           /\ \A i \in 1..Len(doc) :
                  doc[i].start # <<>> => ~StrLess(doc[i].start, projectStart')
           /\ last'.ret = projectStart'
           /\ doc' = doc
           /\ pending' = pending]_vars

\* a reset over two different starts and a task with none
C10_Witness ==
    /\ last.op = "reset_project_start"
    /\ last.err = "none"
    /\ \E i, j, k \in 1..Len(doc) :
          /\ doc[i].start # <<>> /\ doc[j].start # <<>>
          /\ doc[i].start # doc[j].start
          /\ doc[k].start = <<>>
    /\ projectStart # LoadedProjectStart

(***************************************************************************)
(* C11: when no task has a start that is not empty (no task at all         *)
(* included), reset_project_start fails with the error defined for "no     *)
(* scheduled tasks" and leaves project-start and the tasks as they were.   *)
(* Refuted: sorted(...)[0] of the empty list raises IndexError; nothing in *)
(* reset_project_start defines an error for the case.  project-start is    *)
(* left as it was.                                                         *)
(***************************************************************************)
C11_ResetWithoutStartsIsReported ==
    [][(/\ last'.op = "reset_project_start"
        /\ \A i \in 1..Len(doc) : doc[i].start = <<>>) =>
           /\ last'.err = "NoScheduledTasks"
           /\ projectStart' = projectStart
           /\ doc' = doc]_vars

(***************************************************************************)
(* C18: create_task(name, attrs) returns a task whose id is 1 plus the     *)
(* largest integer id of the document, whose name is the given name, and   *)
(* whose other attributes are those of attrs where attrs names them and    *)
(* else work 28800, percent-complete 0, priority 0, type normal,           *)
(* scheduling fixed-work and the empty string for note, start, end and     *)
(* work-start; the task is not attached and the document is unchanged.     *)
(***************************************************************************)
C18_DocumentedDefault(k) ==
    CASE k = "work" -> "28800"
      [] k = "percent-complete" -> "0"
      [] k = "priority" -> "0"
      [] k = "type" -> "normal"
      [] k = "scheduling" -> "fixed-work"
      [] k = "start" -> <<>>
      [] k \in {"note", "end", "work-start"} -> ""

C18_CreateTaskReturnsDetachedTask ==
    [][(last'.op = "create_task" /\ last'.err = "none") =>
          LET te == pending'[Len(pending')]
              name == last'.arg.name
              attrs == last'.arg.attrs
              id == StrToInt(te.id)
          IN /\ Len(pending') = Len(pending) + 1
             /\ \A i \in 1..Len(doc) : StrToInt(doc[i].id) < id
             /\ \E i \in 1..Len(doc) : StrToInt(doc[i].id) + 1 = id
             /\ te.id = IntToStr(id)
             /\ te.name = name
             /\ DOMAIN te = {"id", "name", "note", "work", "start", "end",
                             "work-start", "percent-complete", "priority",
                             "type", "scheduling"} \cup DOMAIN attrs
             /\ \A k \in DOMAIN te \ {"id", "name"} :
                   te[k] = IF k \in DOMAIN attrs THEN attrs[k]
                           ELSE C18_DocumentedDefault(k)
             /\ "parent" \notin DOMAIN te
             /\ \A i \in 1..Len(doc') : doc'[i].id # te.id
             /\ doc' = doc]_vars

\* a task created with attrs that name some attributes and not others, on a
\* document whose largest id is not its number of tasks
C18_Witness ==
    /\ last.op = "create_task"
    /\ last.err = "none"
    /\ "work" \in DOMAIN last.arg.attrs
    /\ pending[Len(pending)]["work"] = "3600"
    /\ pending[Len(pending)]["priority"] = "0"
    /\ StrToInt(last.ret) > Len(doc) + Len(pending)

(***************************************************************************)
(* C12: on a task that has at most one <constraint> child, every           *)
(* set_task_constraint call leaves exactly one <constraint> child and the  *)
(* other tasks as they were, and the same call made again leaves the       *)
(* document as the first call left it.                                     *)
(***************************************************************************)
C12_OneConstraintAndIdempotent ==
    [][(/\ last'.op = "set_task_constraint"
        /\ Len(doc[last'.node].constraints) <= 1) =>
           /\ Len(doc'[last'.node].constraints) = 1
           /\ \A i \in 1..Len(doc) : i # last'.node => doc'[i] = doc[i]
           /\ Len(doc') = Len(doc)
           /\ set_task_constraint(doc', last'.node, last'.arg.ctype,
                                  last'.arg.ts) = doc']_vars

\* a constraint created on a task that had none, and one overwritten with
\* another time
C12_Witness ==
    /\ last.op = "set_task_constraint"
    /\ \E i, j \in 1..Len(doc) :
          /\ loaded[i].constraints = <<>> /\ Len(doc[i].constraints) = 1
          /\ loaded[j].constraints # <<>>
          /\ Len(doc[j].constraints) = 1
          /\ doc[j].constraints[1].time # loaded[j].constraints[1].time

(***************************************************************************)
(* C13: after set_task_constraint(node, type, timestamp) the constraint of *)
(* the node has the type and the time that were passed, for every          *)
(* constraint type and whether the constraint was created or overwritten.  *)
(* Refuted: the type is set to the literal "start-no-earlier-than"; the    *)
(* ctype parameter is never read.                                          *)
(***************************************************************************)
C13_ConstraintStoresTypeAndTime ==
    last.op = "set_task_constraint" =>
        /\ doc[last.node].constraints # <<>>
        /\ doc[last.node].constraints[1].type = last.arg.ctype
        /\ doc[last.node].constraints[1].time = last.arg.ts

(***************************************************************************)
(* C14: for a tracker of N issues whose requests all succeed, the          *)
(* generator yields the issues 1..N in that order, each once; its k-th     *)
(* request asks for start 25(k-1) with limit 25 and is made when all the   *)
(* issues before that start have been yielded; and it ends, having made    *)
(* ceil(N/25) requests, one when N = 0.                                    *)
(***************************************************************************)
C14_Requests == IF bb.count = 0 THEN 1 ELSE (bb.count + 24) \div 25

C14_SoFar ==
    gen.err = "none" =>
        /\ \A i \in 1..Len(gen.yielded) : gen.yielded[i] = i
        /\ Len(gen.yielded) <= bb.count
        /\ Len(gen.requests) <= C14_Requests
        /\ \A k \in 1..Len(gen.requests) :
              /\ gen.requests[k].start = 25 * (k - 1)
              /\ gen.requests[k].limit = 25
              /\ gen.requests[k].yielded =
                    IF 25 * (k - 1) <= bb.count THEN 25 * (k - 1)
                    ELSE bb.count
        /\ gen.pc = "done" =>
              /\ Len(gen.yielded) = bb.count
              /\ Len(gen.requests) = C14_Requests

C14_EveryIssueOnceThenEnd ==
    /\ []C14_SoFar
    /\ <>(gen.pc \in {"done", "raised"})

\* a tracker whose last page is full, read to the end in two requests
C14_Witness ==
    /\ bb.count = 50
    /\ gen.pc = "done"
    /\ gen.err = "none"
    /\ Len(gen.yielded) = 50
    /\ Len(gen.requests) = 2

(***************************************************************************)
(* C15: when a request does not succeed the generator raises the error     *)
(* whose message names the owner and the slug, and has yielded the issues  *)
(* of the pages before the failed one and no other.                        *)
(* Refuted: the raise statement formats its message with the name account, *)
(* which is not defined, so the error raised is a NameError.               *)
(***************************************************************************)
C15_FailureNamesTheTracker ==
    gen.pc = "raised" =>
        /\ gen.err = "Exception"
        /\ Len(gen.yielded) = 25 * (Len(gen.requests) - 1)
        /\ \A i \in 1..Len(gen.yielded) : gen.yielded[i] = i

(***************************************************************************)
(* C16: of two issues, the one with the lower status level sorts first,    *)
(* whatever the priorities (new/blocker before closed/trivial); with equal *)
(* status levels the one with the lower priority level, where blocker is   *)
(* 1, critical 2, major 3, minor 4 and trivial 5; and with both equal the  *)
(* one whose local_id is the smaller integer.                              *)
(***************************************************************************)
C16_PriorityRank(priority) ==
    CASE priority = "blocker" -> 1
      [] priority = "critical" -> 2
      [] priority = "major" -> 3
      [] priority = "minor" -> 4
      [] priority = "trivial" -> 5

C16_SortsFirst(a, b) ==
    \/ status_level(a.status) < status_level(b.status)
    \/ /\ status_level(a.status) = status_level(b.status)
       /\ C16_PriorityRank(a.priority) < C16_PriorityRank(b.priority)
    \/ /\ status_level(a.status) = status_level(b.status)
       /\ C16_PriorityRank(a.priority) = C16_PriorityRank(b.priority)
       /\ StrToInt(a.local_id) < StrToInt(b.local_id)

C16_SortKeyIsLexicographic ==
    (calc.op = "issue_sort_key" /\ calc.called) =>
        /\ calc.before <=> C16_SortsFirst(calc.a, calc.b)
        /\ (/\ calc.a.status = "new" /\ calc.a.priority = "blocker"
            /\ calc.b.status = "closed" /\ calc.b.priority = "trivial")
              => calc.before

\* an issue that sorts first by its status against its priority and its id
C16_Witness ==
    /\ calc.op = "issue_sort_key"
    /\ calc.called
    /\ calc.before
    /\ status_level(calc.a.status) < status_level(calc.b.status)
    /\ priority_level(calc.a.priority) > priority_level(calc.b.priority)
    /\ StrToInt(calc.a.local_id) > StrToInt(calc.b.local_id)

(***************************************************************************)
(* C17: for an issue last updated E seconds after its creation,            *)
(* issue_elapsed_work_seconds returns E rounded up to the whole hour when  *)
(* E is at most 8 hours and E * 40/168 rounded up to the whole hour when   *)
(* it is more, E being the whole span, days included.                      *)
(* Refuted: the code reads timedelta.seconds, which leaves the days out.   *)
(***************************************************************************)
C17_WholeSpanIsScaled ==
    (calc.op = "issue_elapsed_work_seconds" /\ calc.called) =>
        calc.ret = IF calc.span <= 8 * 3600
                   THEN ((calc.span + 3599) \div 3600) * 3600
                   ELSE ((calc.span * 40 + 168 * 3600 - 1)
                            \div (168 * 3600)) * 3600

(***************************************************************************)
(* C19: a get_task_path call, made directly or by get_project_task or      *)
(* get_milestone_task, that fails on duplicate siblings has created and    *)
(* attached no task: the document after it is the document before it, and  *)
(* no id was taken.                                                        *)
(***************************************************************************)
C19_DuplicateFailureChangesNothing ==
    [][(last'.op \in ResolveOps /\ last'.dup) =>
          /\ doc' = doc
          /\ allocated' = allocated
          /\ last'.node = 0]_vars

\* the duplicates are met at the second name, under a task the walk found
C19_Witness ==
    /\ last.op = "get_task_path"
    /\ last.dup
    /\ last.parent = 0
    /\ Len(last.arg) = 2
    /\ \E i \in 1..Len(doc) :
          /\ doc[i].parent = 0
          /\ doc[i].name = last.arg[1]
          /\ Cardinality({j \in 1..Len(doc) :
                 doc[j].parent = i /\ doc[j].name = last.arg[2]}) = 2

(***************************************************************************)
(* C20: a resolve call leaves every task that was in the document as it    *)
(* was (its attributes, its parent, its place) and appends the tasks it    *)
(* creates after those there; and for two (tracker, milestone) pairs,      *)
(* resolving the one and then the other gives the same tree of names as    *)
(* resolving them the other way round.                                     *)
(* Refuted for the order: with the labels 2 and 2' and '2 (see C1) the     *)
(* second label finds the task of the first when that exists, and is       *)
(* given a task of its own when it does not.  The first half holds.        *)
(***************************************************************************)
RECURSIVE C20_NamePath(_, _)
C20_NamePath(d, i) ==
    IF i = 0 THEN <<>> ELSE Append(C20_NamePath(d, d[i].parent), d[i].name)

\* the tree of names: the paths of names from <tasks> to each task
C20_NameTree(d) == {C20_NamePath(d, i) : i \in 1..Len(d)}

\* get_project_task and, on the task it returns, get_milestone_task
C20_ResolvePair(d, pair) ==
    LET prj == get_project_task(d, pair.tracker) IN
    IF prj.err # "none" THEN prj.doc
    ELSE get_milestone_task(prj.doc, prj.node, pair.milestone).doc

C20_Pairs == [tracker : Trackers, milestone : Milestones]

C20_OrderIndependent(d) ==
    \A p \in C20_Pairs, q \in C20_Pairs :
        C20_NameTree(C20_ResolvePair(C20_ResolvePair(d, p), q))
            = C20_NameTree(C20_ResolvePair(C20_ResolvePair(d, q), p))

C20_AppendOnlyAndOrderIndependent ==
    [][/\ last'.op \in ResolveOps =>
            /\ Len(doc') >= Len(doc)
            /\ \A i \in 1..Len(doc) : doc'[i] = doc[i]
       /\ C20_OrderIndependent(doc)]_vars

====
